---- MODULE Spec2Model ----
(***************************************************************************)
(* State-machine model of the rust-agents runtime:                         *)
(*   agent_runtime.rs   RustAgent::new, RustAgent::execute,                *)
(*                      execute_parallel (tokio JoinSet fan-out and join)  *)
(*   python_bindings.rs execute_agent, execute_agents_parallel,            *)
(*                      execute_agents_batch, get_metrics                  *)
(*                                                                         *)
(* Rust values are encoded as follows.                                     *)
(*   Option<T>          None is <<>>, Some(x) is <<x>>                     *)
(*   Result<T, Error>   [tag |-> "Ok", val |-> <<x>>, err |-> ""]          *)
(*                      [tag |-> "Err", val |-> <<>>, err |-> message]     *)
(*   JoinError          tag "JoinError" in the same record shape           *)
(*   Vec<T>             a sequence                                         *)
(***************************************************************************)
EXTENDS Integers, Sequences, FiniteSets, TLC

\* Largest number of agents and of tasks one call of execute_parallel,
\* execute_agents_parallel is given.
MaxAgents == 3
\* Largest number of agent configurations one batch call is given.
MaxConfigs == 2
\* Largest number of inputs one batch call is given.
MaxInputs == 2
\* Largest length of a result collection handed to get_metrics.
MaxResults == 3
\* Largest execution time, in milliseconds, of a result handed to get_metrics.
MaxTime == 2
\* Largest number of execute calls a Rust caller makes on one agent.
MaxCalls == 2

VARIABLES
    entry,          \* the entry point the caller invoked
    agent_configs,  \* Vec<(String, PyAgentConfig)>: the ids given by the caller
    inputs,         \* Vec<String>: the inputs of the call
    pc,             \* position of the orchestrating future
    cur,            \* execute_agents_batch: index of the input being processed
    built,          \* number of RustAgent values constructed so far
    agents,         \* execute_parallel: its agents argument (the agents' names)
    tasks,          \* execute_parallel: its tasks argument
    next_pair,      \* execute_parallel: index of the next zipped pair to spawn
    units,          \* every unit of work (one RustAgent::execute future) so far
    set,            \* JoinSet: the units spawned into it and not yet joined
    done,           \* JoinSet: the finished units, in order of completion
    results,        \* execute_parallel: its results vector
    par_ret,        \* what execute_parallel returned to its caller
    all_results,    \* execute_agents_batch: its all_results vector
    ret,            \* what the caller of the entry point received
    next_uuid,      \* number of uuids generated so far
    served,         \* the backend: the bodies it may answer a request with
    clock,          \* the durations start.elapsed() may report
    metrics_in,     \* get_metrics: its results argument
    metrics         \* get_metrics: the PyExecutionMetrics it returned

vars == <<entry, agent_configs, inputs, pc, cur, built, agents, tasks, next_pair,
          units, set, done, results, par_ret, all_results, ret, next_uuid,
          served, clock, metrics_in, metrics>>

runtime_vars == <<entry, agent_configs, inputs, pc, cur, built, agents, tasks,
                  next_pair, units, set, done, results, par_ret, all_results, ret,
                  next_uuid>>

\* What no action of the runtime changes: the backend, the clock, get_metrics
metrics_vars == <<served, clock, metrics_in, metrics>>

----------------------------------------------------------------------------
\* Values

None == <<>>

Some(x) == <<x>>

Ok(x) == [tag |-> "Ok", val |-> <<x>>, err |-> ""]

Err(e) == [tag |-> "Err", val |-> <<>>, err |-> e]

\* tokio's JoinError for a unit that panicked
JoinError == [tag |-> "JoinError", val |-> <<>>, err |-> "task panicked"]

\* A Result slot that holds nothing yet
NoResult == [tag |-> "None", val |-> <<>>, err |-> ""]

\* The status string RustAgent::execute writes
Completed == "completed"

\* The status the specification calls Failed
Failed == "failed"

\* The id the caller gives its k-th agent; it becomes config.name
Name(k) == "agent" \o ToString(k)

\* The i-th input of a call
Task(i) == "task" \o ToString(i)

\* uuid::Uuid::new_v4().to_string(): the n-th identifier generated, taken to be
\* different from every identifier generated before it
Uuid(n) == "uuid-" \o ToString(n)

\* What send().await can yield: a transport error, or a response with its status
SendOutcomes == {"connect_error", "timeout", "http_success", "http_error"}

\* The bodies a response can carry: not JSON, or a JSON value whose "response"
\* field is a string (empty or not), another type, or missing
Bodies == {"not_json", "response_text", "response_empty", "response_number",
           "no_response_field"}

\* The durations start.elapsed().as_millis() reports in the model
Durations == {0, 1}

\* What response.json().await can yield: the client timeout, or a body
JsonOutcomes == Bodies \cup {"timeout"}

\* Mutant of ResponseField: a "response" field of another type is rendered as text
ResponseField_AnyType(body) ==
    CASE body = "response_text"   -> Some("hi there")
      [] body = "response_empty"  -> Some("")
      [] body = "response_number" -> Some("7")
      [] OTHER                    -> None

\* result.get("response").and_then(|v| v.as_str()).map(String::from)
ResponseField(body) ==
    CASE body = "response_text"  -> Some("hi there")
      [] body = "response_empty" -> Some("")
      [] OTHER                   -> None

\* Mutant of AgentResult: a body without a usable "response" field is reported
\* in error
AgentResult_ReportsShape(id, body, duration) ==
    [agent_id    |-> id,
     status      |-> Completed,
     output      |-> ResponseField(body),
     error       |-> IF ResponseField(body) = None
                     THEN Some("no response field") ELSE None,
     duration_ms |-> duration]

\* The AgentResult RustAgent::execute builds
AgentResult(id, body, duration) ==
    [agent_id    |-> id,
     status      |-> Completed,
     output      |-> ResponseField(body),
     error       |-> None,
     duration_ms |-> duration]

\* An f64 value, kept as the exact fraction it stands for. The model's durations
\* and sums are far below 2^53, where f64 arithmetic on integers is exact; a
\* quotient is kept as a fraction in lowest terms.
RECURSIVE Gcd(_, _)
Gcd(a, b) == IF b = 0 THEN a ELSE Gcd(b, a % b)

\* 0.0 / 0.0
NaN == [num |-> 0, den |-> 0]

\* x / 0.0 for a positive x
Infinity == [num |-> 1, den |-> 0]

F64(n, d) ==
    CASE d = 0 -> IF n = 0 THEN NaN ELSE Infinity
      [] n = 0 -> [num |-> 0, den |-> 1]
      [] OTHER -> [num |-> n \div Gcd(n, d), den |-> d \div Gcd(n, d)]

\* u128 as f64
AsF64(d) == F64(d, 1)

\* usize as f64
UsizeAsF64(n) == F64(n, 1)

\* f64 + f64
F64Add(a, b) == F64(a.num * b.den + b.num * a.den, a.den * b.den)

\* f64 / f64; a zero divisor yields NaN or an infinity, never an error
F64Div(a, b) == F64(a.num * b.den, a.den * b.num)

\* The literal 0.0
F64Zero == F64(0, 1)

\* impl From<AgentResult> for PyAgentResult
PyAgentResult(r) ==
    [agent_id       |-> r.agent_id,
     status         |-> r.status,
     output         |-> r.output,
     error          |-> r.error,
     execution_time |-> AsF64(r.duration_ms)]

\* results.into_iter().map(PyAgentResult::from).collect()
MapPy(rs) == [k \in 1..Len(rs) |-> PyAgentResult(rs[k])]

\* PyErr::new::<PyRuntimeError, _>(e.to_string())
PyRuntimeError(e) == [tag |-> "PyRuntimeError", val |-> <<>>, err |-> e]

\* The panic of RustAgent::new(..).unwrap() as the caller sees it
Panic == [tag |-> "Panic", val |-> <<>>, err |-> "called unwrap on an Err value"]

\* A unit of work: one RustAgent::execute future
\*   input, pair  the input and the zipped pair the unit was spawned for
\*   agent, task  the name of the agent that executes, and its task
\*   st           spawned, sending (awaiting send), reading (awaiting json),
\*                finished, panicked or aborted
\*   resp         the status of the Response it holds while reading
\*   out          what the unit returned
Unit(i, k, agent, task) ==
    [input |-> i, pair |-> k, agent |-> agent, task |-> task,
     st |-> "spawned", resp |-> "none", out |-> NoResult]

Min(a, b) == IF a <= b THEN a ELSE b

----------------------------------------------------------------------------
\* The state before any call

Idle ==
    /\ entry = "none"
    /\ agent_configs = <<>>
    /\ inputs = <<>>
    /\ pc = "idle"
    /\ cur = 0
    /\ built = 0
    /\ agents = <<>>
    /\ tasks = <<>>
    /\ next_pair = 0
    /\ units = <<>>
    /\ set = {}
    /\ done = <<>>
    /\ results = <<>>
    /\ par_ret = NoResult
    /\ all_results = <<>>
    /\ ret = NoResult
    /\ next_uuid = 0

Init ==
    /\ Idle
    /\ served = Bodies
    /\ clock = Durations
    /\ metrics_in = <<>>
    /\ metrics = <<>>

----------------------------------------------------------------------------
\* Entry points

\* agents.into_iter().map(.. RustAgent::new(config.into()).unwrap()).collect():
\* the names of the agents built from the first n configurations
BuildAgents(n) == [k \in 1..n |-> Name(k)]

\* vec![input; n]
Repeat(input, n) == [k \in 1..n |-> input]

\* Mutant of ZipLen: the loop stops one pair short
ZipLen_SkipsLast(as, ts) ==
    IF Min(Len(as), Len(ts)) > 0 THEN Min(Len(as), Len(ts)) - 1 ELSE 0

\* for (agent, task) in agents.into_iter().zip(tasks.into_iter()): the number of
\* pairs zip yields
ZipLen(as, ts) == Min(Len(as), Len(ts))

\* Mutant of EnterParallel: sequences of different lengths are rejected
EnterParallel_RejectsMismatch(as, ts) ==
    /\ agents' = as
    /\ tasks' = ts
    /\ next_pair' = 1
    /\ set' = {}
    /\ done' = <<>>
    /\ results' = <<>>
    /\ par_ret' = IF Len(as) = Len(ts) THEN NoResult ELSE Err("length mismatch")
    /\ pc' = IF Len(as) # Len(ts) THEN "par_returned"
             ELSE IF ZipLen(as, ts) = 0 THEN "join" ELSE "spawn"

\* The call execute_parallel(as, ts): its locals before the for loop runs
EnterParallel(as, ts) ==
    /\ agents' = as
    /\ tasks' = ts
    /\ next_pair' = 1
    /\ set' = {}
    /\ done' = <<>>
    /\ results' = <<>>
    /\ par_ret' = NoResult
    /\ pc' = IF ZipLen(as, ts) = 0 THEN "join" ELSE "spawn"

\* execute_agent(agent_id, config, input_data): the agent is built before the
\* future is handed to the runtime; the future is the single execute call
execute_agent ==
    /\ pc = "idle"
    /\ entry' = "execute_agent"
    /\ agent_configs' = <<Name(1)>>
    /\ inputs' = <<Task(1)>>
    /\ \E ok \in BOOLEAN :
          IF ok
          THEN /\ built' = 1
               /\ units' = <<Unit(1, 1, Name(1), Task(1))>>
               /\ pc' = "await_execute"
               /\ ret' = ret
          ELSE /\ built' = 0
               /\ units' = units
               /\ pc' = "returned"
               /\ ret' = Panic
    /\ cur' = 1
    /\ UNCHANGED <<agents, tasks, next_pair, set, done, results, par_ret,
                   all_results, next_uuid, metrics_vars>>

\* execute_agent: the awaited execute call has returned; map_err and From
execute_agent_return ==
    /\ pc = "await_execute"
    /\ units[1].st \in {"finished", "panicked"}
    /\ ret' = CASE units[1].out.tag = "Ok"  -> Ok(PyAgentResult(units[1].out.val[1]))
                [] units[1].out.tag = "Err" -> PyRuntimeError(units[1].out.err)
                [] OTHER                    -> Panic
    /\ pc' = "returned"
    /\ UNCHANGED <<entry, agent_configs, inputs, cur, built, agents, tasks,
                   next_pair, units, set, done, results, par_ret, all_results,
                   next_uuid, metrics_vars>>

\* execute_agents_parallel(agents, input_data): every agent is built before the
\* future starts; the future calls execute_parallel with vec![input_data; n]
execute_agents_parallel ==
    /\ pc = "idle"
    /\ entry' = "execute_agents_parallel"
    /\ \E c \in 0..MaxAgents, nOk \in 0..MaxAgents :
          /\ nOk <= c
          /\ agent_configs' = [k \in 1..c |-> Name(k)]
          /\ inputs' = <<Task(1)>>
          /\ built' = nOk
          /\ IF nOk = c
             THEN /\ EnterParallel(BuildAgents(c), Repeat(Task(1), c))
                  /\ ret' = ret
             ELSE /\ pc' = "returned"
                  /\ ret' = Panic
                  /\ UNCHANGED <<agents, tasks, next_pair, set, done, results,
                                 par_ret>>
    /\ cur' = 1
    /\ UNCHANGED <<units, all_results, next_uuid, metrics_vars>>

\* execute_parallel(agents, tasks) called through the Rust API (lib.rs), with
\* agents the caller has built and tasks of any length
execute_parallel ==
    /\ pc = "idle"
    /\ entry' = "execute_parallel"
    /\ \E ka \in 0..MaxAgents, kt \in 0..MaxAgents :
          /\ agent_configs' = [k \in 1..ka |-> Name(k)]
          /\ inputs' = [k \in 1..kt |-> Task(k)]
          /\ built' = ka
          /\ EnterParallel(BuildAgents(ka), [k \in 1..kt |-> Task(k)])
    /\ cur' = 1
    /\ UNCHANGED <<units, all_results, ret, next_uuid, metrics_vars>>

\* A Rust caller that has built one agent calls agent.execute(task)
rust_execute ==
    /\ pc = "idle"
    /\ entry' = "execute"
    /\ agent_configs' = <<Name(1)>>
    /\ inputs' = <<Task(1)>>
    /\ built' = 1
    /\ cur' = 1
    /\ units' = <<Unit(1, 1, Name(1), Task(1))>>
    /\ pc' = "await_rust_execute"
    /\ UNCHANGED <<agents, tasks, next_pair, set, done, results, par_ret,
                   all_results, ret, next_uuid, metrics_vars>>

\* The awaited execute call returns its Result to the Rust caller; a panic
\* unwinds into the caller
rust_execute_return ==
    /\ pc = "await_rust_execute"
    /\ units[cur].st \in {"finished", "panicked"}
    /\ ret' = IF units[cur].st = "panicked" THEN Panic ELSE units[cur].out
    /\ pc' = "returned"
    /\ UNCHANGED <<entry, agent_configs, inputs, cur, built, agents, tasks,
                   next_pair, units, set, done, results, par_ret, all_results,
                   next_uuid, metrics_vars>>

\* execute takes &self: the caller calls it again on the same agent, with the
\* next task
rust_execute_again ==
    /\ pc = "returned"
    /\ entry = "execute"
    /\ ret.tag \in {"Ok", "Err"}
    /\ cur < MaxCalls
    /\ cur' = cur + 1
    /\ inputs' = Append(inputs, Task(cur + 1))
    /\ units' = Append(units, Unit(cur + 1, 1, Name(1), Task(cur + 1)))
    /\ ret' = NoResult
    /\ pc' = "await_rust_execute"
    /\ UNCHANGED <<entry, agent_configs, built, agents, tasks, next_pair, set,
                   done, results, par_ret, all_results, next_uuid, metrics_vars>>

\* execute_agents_batch(agent_configs, inputs): nothing runs before the future
execute_agents_batch ==
    /\ pc = "idle"
    /\ entry' = "execute_agents_batch"
    /\ \E c \in 0..MaxConfigs, m \in 0..MaxInputs :
          /\ agent_configs' = [k \in 1..c |-> Name(k)]
          /\ inputs' = [k \in 1..m |-> Task(k)]
    /\ all_results' = <<>>
    /\ cur' = 1
    /\ pc' = "batch_loop"
    /\ UNCHANGED <<built, agents, tasks, next_pair, units, set, done, results,
                   par_ret, ret, next_uuid, metrics_vars>>

\* execute_agents_batch: one iteration of `for input in inputs` up to the call of
\* execute_parallel: the agents are built afresh, each by new(..).unwrap()
batch_iterate ==
    /\ pc = "batch_loop"
    /\ cur <= Len(inputs)
    /\ \E nOk \in 0..Len(agent_configs) :
          /\ built' = built + nOk
          /\ IF nOk = Len(agent_configs)
             THEN /\ EnterParallel(BuildAgents(Len(agent_configs)),
                                   Repeat(inputs[cur], Len(agent_configs)))
                  /\ ret' = ret
             ELSE /\ pc' = "returned"
                  /\ ret' = Panic
                  /\ UNCHANGED <<agents, tasks, next_pair, set, done, results,
                                 par_ret>>
    /\ UNCHANGED <<entry, agent_configs, inputs, cur, units, all_results,
                   next_uuid, metrics_vars>>

\* execute_agents_batch: the for loop is over, Ok(all_results)
batch_done ==
    /\ pc = "batch_loop"
    /\ cur > Len(inputs)
    /\ ret' = Ok(all_results)
    /\ pc' = "returned"
    /\ UNCHANGED <<entry, agent_configs, inputs, cur, built, agents, tasks,
                   next_pair, units, set, done, results, par_ret, all_results,
                   next_uuid, metrics_vars>>

----------------------------------------------------------------------------
\* execute_parallel

\* set.spawn(async move { agent.execute(&task).await }): one iteration of the for
\* loop; the runtime may run the unit from here on
spawn ==
    /\ pc = "spawn"
    /\ next_pair <= ZipLen(agents, tasks)
    /\ units' = Append(units, Unit(cur, next_pair, agents[next_pair],
                                    tasks[next_pair]))
    /\ set' = set \cup {Len(units) + 1}
    /\ next_pair' = next_pair + 1
    /\ pc' = IF next_pair + 1 > ZipLen(agents, tasks) THEN "join" ELSE "spawn"
    /\ UNCHANGED <<entry, agent_configs, inputs, cur, built, agents, tasks, done,
                   results, par_ret, all_results, ret, next_uuid, metrics_vars>>

\* Mutant of JoinSetIsEmpty: the loop ends as soon as no finished unit is
\* waiting to be joined (try_join_next in place of join_next().await)
JoinSetIsEmpty_NothingPending == done = <<>>

\* JoinSet::join_next() yields None exactly when the set holds no unit
JoinSetIsEmpty == set = {}

\* The units the drop of the JoinSet aborts: those in it that have not finished
Aborted(us, members) ==
    [u \in 1..Len(us) |->
        IF u \in members /\ us[u].st \in {"spawned", "sending", "reading"}
        THEN [us[u] EXCEPT !.st = "aborted"]
        ELSE us[u]]

\* while let Some(res) = set.join_next().await: None ends the loop, Ok(results)
join_next_none ==
    /\ pc = "join"
    /\ JoinSetIsEmpty
    /\ par_ret' = Ok(results)
    /\ results' = <<>>
    /\ pc' = "par_returned"
    /\ UNCHANGED <<entry, agent_configs, inputs, cur, built, agents, tasks,
                   next_pair, units, set, done, all_results, ret, next_uuid,
                   metrics_vars>>

\* join_next() yields the unit that finished first; results.push(res??) with
\* res = Ok(Ok(result))
join_next_ok ==
    /\ pc = "join"
    /\ done # <<>>
    /\ units[Head(done)].out.tag = "Ok"
    /\ results' = Append(results, units[Head(done)].out.val[1])
    /\ set' = set \ {Head(done)}
    /\ done' = Tail(done)
    /\ UNCHANGED <<entry, agent_configs, inputs, pc, cur, built, agents, tasks,
                   next_pair, units, par_ret, all_results, ret, next_uuid,
                   metrics_vars>>

\* Mutant of join_next_err: the results collected so far are returned
join_next_err_KeepsPartial ==
    /\ pc = "join"
    /\ done # <<>>
    /\ units[Head(done)].out.tag # "Ok"
    /\ par_ret' = Ok(results)
    /\ results' = <<>>
    /\ units' = Aborted(units, set)
    /\ set' = {}
    /\ done' = <<>>
    /\ pc' = "par_returned"
    /\ UNCHANGED <<entry, agent_configs, inputs, cur, built, agents, tasks,
                   next_pair, all_results, ret, next_uuid, metrics_vars>>

\* results.push(res??) with res = Err(JoinError) or Ok(Err(e)): the ? returns the
\* error; results and the JoinSet are dropped, which aborts the units left in it
join_next_err ==
    /\ pc = "join"
    /\ done # <<>>
    /\ units[Head(done)].out.tag # "Ok"
    /\ par_ret' = Err(units[Head(done)].out.err)
    /\ results' = <<>>
    /\ units' = Aborted(units, set)
    /\ set' = {}
    /\ done' = <<>>
    /\ pc' = "par_returned"
    /\ UNCHANGED <<entry, agent_configs, inputs, cur, built, agents, tasks,
                   next_pair, all_results, ret, next_uuid, metrics_vars>>

----------------------------------------------------------------------------
\* RustAgent::execute, one unit

\* The unit has finished with the Result r; a unit of a JoinSet is queued for
\* join_next
Finish(u, r) ==
    /\ units' = [units EXCEPT ![u].st = "finished", ![u].resp = "none", ![u].out = r]
    /\ done' = IF u \in set THEN Append(done, u) ELSE done

\* Instant::now() and the POST to {ollama_url}/api/generate are issued
unit_send(u) ==
    /\ units[u].st = "spawned"
    /\ units' = [units EXCEPT ![u].st = "sending"]
    /\ UNCHANGED <<entry, agent_configs, inputs, pc, cur, built, agents, tasks,
                   next_pair, set, done, results, par_ret, all_results, ret,
                   next_uuid, metrics_vars>>

\* Mutant of send_done: a transport error makes the unit send the request again
send_done_Retries(u) ==
    /\ units[u].st = "sending"
    /\ \E o \in SendOutcomes :
          CASE o = "connect_error" ->
                 /\ units' = [units EXCEPT ![u].st = "spawned"]
                 /\ done' = done
            [] o = "timeout"       -> Finish(u, Err("operation timed out"))
            [] OTHER ->
                 /\ units' = [units EXCEPT ![u].st = "reading", ![u].resp = o]
                 /\ done' = done
    /\ UNCHANGED <<entry, agent_configs, inputs, pc, cur, built, agents, tasks,
                   next_pair, set, results, par_ret, all_results, ret, next_uuid,
                   metrics_vars>>

\* Mutant of send_done: a transport error is captured into a Failed result
send_done_Captures(u) ==
    /\ units[u].st = "sending"
    /\ \E o \in SendOutcomes :
          CASE o = "connect_error" ->
                 Finish(u, Ok([agent_id    |-> units[u].task,
                               status      |-> Failed,
                               output      |-> None,
                               error       |-> Some("error sending request"),
                               duration_ms |-> 0]))
            [] o = "timeout"       -> Finish(u, Err("operation timed out"))
            [] OTHER ->
                 /\ units' = [units EXCEPT ![u].st = "reading", ![u].resp = o]
                 /\ done' = done
    /\ UNCHANGED <<entry, agent_configs, inputs, pc, cur, built, agents, tasks,
                   next_pair, set, results, par_ret, all_results, ret, next_uuid,
                   metrics_vars>>

\* send().await? : a transport error or the timeout returns Err; any response,
\* whatever its status, goes on to be read
send_done(u) ==
    /\ units[u].st = "sending"
    /\ \E o \in SendOutcomes :
          CASE o = "connect_error" -> Finish(u, Err("error sending request"))
            [] o = "timeout"       -> Finish(u, Err("operation timed out"))
            [] OTHER ->
                 /\ units' = [units EXCEPT ![u].st = "reading", ![u].resp = o]
                 /\ done' = done
    /\ UNCHANGED <<entry, agent_configs, inputs, pc, cur, built, agents, tasks,
                   next_pair, set, results, par_ret, all_results, ret, next_uuid,
                   metrics_vars>>

\* response.json().await? : the timeout or a body that is not JSON returns Err
json_err(u) ==
    /\ units[u].st = "reading"
    /\ \E o \in {"timeout"} \cup (served \cap {"not_json"}) :
          Finish(u, Err(IF o = "timeout" THEN "operation timed out"
                        ELSE "error decoding response body"))
    /\ UNCHANGED <<entry, agent_configs, inputs, pc, cur, built, agents, tasks,
                   next_pair, set, results, par_ret, all_results, ret, next_uuid,
                   metrics_vars>>

\* Mutant of json_ok: agent_id is the agent's configured name, not a new uuid
json_ok_NamesId(u) ==
    /\ units[u].st = "reading"
    /\ \E body \in served \ {"not_json"}, d \in clock :
          Finish(u, Ok(AgentResult(units[u].agent, body, d)))
    /\ next_uuid' = next_uuid
    /\ UNCHANGED <<entry, agent_configs, inputs, pc, cur, built, agents, tasks,
                   next_pair, set, results, par_ret, all_results, ret, metrics_vars>>

\* response.json() yields a JSON value; start.elapsed().as_millis(); Ok(AgentResult)
\* with a new uuid
json_ok(u) ==
    /\ units[u].st = "reading"
    /\ \E body \in served \ {"not_json"}, d \in clock :
          Finish(u, Ok(AgentResult(Uuid(next_uuid + 1), body, d)))
    /\ next_uuid' = next_uuid + 1
    /\ UNCHANGED <<entry, agent_configs, inputs, pc, cur, built, agents, tasks,
                   next_pair, set, results, par_ret, all_results, ret, metrics_vars>>

\* Uuid::new_v4() panics when the system's random source fails: the unit ends
\* with a panic, which join_next reports as a JoinError
unit_panic(u) ==
    /\ units[u].st = "reading"
    /\ units' = [units EXCEPT ![u].st = "panicked", ![u].resp = "none",
                              ![u].out = JoinError]
    /\ done' = IF u \in set THEN Append(done, u) ELSE done
    /\ UNCHANGED <<entry, agent_configs, inputs, pc, cur, built, agents, tasks,
                   next_pair, set, results, par_ret, all_results, ret, next_uuid,
                   metrics_vars>>

----------------------------------------------------------------------------
\* The callers of execute_parallel

\* execute_agents_parallel: map_err, then PyAgentResult::from over the results
parallel_return ==
    /\ pc = "par_returned"
    /\ entry = "execute_agents_parallel"
    /\ ret' = IF par_ret.tag = "Ok" THEN Ok(MapPy(par_ret.val[1]))
              ELSE PyRuntimeError(par_ret.err)
    /\ pc' = "returned"
    /\ UNCHANGED <<entry, agent_configs, inputs, cur, built, agents, tasks,
                   next_pair, units, set, done, results, par_ret, all_results,
                   next_uuid, metrics_vars>>

\* The Rust caller of execute_parallel receives its Result as it is
rust_return ==
    /\ pc = "par_returned"
    /\ entry = "execute_parallel"
    /\ ret' = par_ret
    /\ pc' = "returned"
    /\ UNCHANGED <<entry, agent_configs, inputs, cur, built, agents, tasks,
                   next_pair, units, set, done, results, par_ret, all_results,
                   next_uuid, metrics_vars>>

\* Mutant of Extend: the new results are put in front of the collection
Extend_Prepends(all, rs) == MapPy(rs) \o all

\* all_results.extend(results.into_iter().map(PyAgentResult::from))
Extend(all, rs) == all \o MapPy(rs)

\* execute_agents_batch: execute_parallel returned Ok; extend, next input
batch_extend ==
    /\ pc = "par_returned"
    /\ entry = "execute_agents_batch"
    /\ par_ret.tag = "Ok"
    /\ all_results' = Extend(all_results, par_ret.val[1])
    /\ cur' = cur + 1
    /\ pc' = "batch_loop"
    /\ UNCHANGED <<entry, agent_configs, inputs, built, agents, tasks, next_pair,
                   units, set, done, results, par_ret, ret, next_uuid, metrics_vars>>

\* Mutant of batch_fail: the results accumulated so far are returned
batch_fail_ReturnsPartial ==
    /\ pc = "par_returned"
    /\ entry = "execute_agents_batch"
    /\ par_ret.tag # "Ok"
    /\ ret' = Ok(all_results)
    /\ all_results' = all_results
    /\ pc' = "returned"
    /\ UNCHANGED <<entry, agent_configs, inputs, cur, built, agents, tasks,
                   next_pair, units, set, done, results, par_ret, next_uuid,
                   metrics_vars>>

\* execute_agents_batch: execute_parallel returned Err; map_err and ? return it,
\* and all_results is dropped
batch_fail ==
    /\ pc = "par_returned"
    /\ entry = "execute_agents_batch"
    /\ par_ret.tag # "Ok"
    /\ ret' = PyRuntimeError(par_ret.err)
    /\ all_results' = <<>>
    /\ pc' = "returned"
    /\ UNCHANGED <<entry, agent_configs, inputs, cur, built, agents, tasks,
                   next_pair, units, set, done, results, par_ret, next_uuid,
                   metrics_vars>>

----------------------------------------------------------------------------
\* The runtime: one call of an entry point, its units run by the tokio workers

\* get_metrics

\* Mutant of CountCompleted: the status is compared without regard to case
CountCompleted_IgnoresCase(rs) ==
    Cardinality({k \in 1..Len(rs) : rs[k].status \in {"completed", "Completed"}})

\* results.iter().filter(|r| r.status == "completed").count()
CountCompleted(rs) == Cardinality({k \in 1..Len(rs) : rs[k].status = Completed})

\* usize - usize: an underflow panics (debug build) or wraps (release build);
\* either way the difference is not the mathematical one
UsizeSub(a, b) == IF b <= a THEN a - b ELSE "underflow"

\* Mutant of SumTimes: only the completed results' times are added
RECURSIVE SumTimes_CompletedOnly(_)
SumTimes_CompletedOnly(rs) ==
    IF rs = <<>> THEN F64Zero
    ELSE F64Add(SumTimes_CompletedOnly(SubSeq(rs, 1, Len(rs) - 1)),
                IF rs[Len(rs)].status = Completed THEN rs[Len(rs)].execution_time
                ELSE F64Zero)

\* results.iter().map(|r| r.execution_time).sum()
RECURSIVE SumTimes(_)
SumTimes(rs) ==
    IF rs = <<>> THEN F64Zero
    ELSE F64Add(SumTimes(SubSeq(rs, 1, Len(rs) - 1)), rs[Len(rs)].execution_time)

\* Mutant of AvgTime: the division is not guarded
AvgTime_Unguarded(total_time, total_agents) ==
    F64Div(total_time, UsizeAsF64(total_agents))

\* if total_agents > 0 { total_time / total_agents as f64 } else { 0.0 }
AvgTime(total_time, total_agents) ==
    IF total_agents > 0 THEN F64Div(total_time, UsizeAsF64(total_agents))
    ELSE F64Zero

\* Mutant of get_metrics: failed counts the results whose status is the Failed
\* marker, instead of being total_agents - successful
get_metrics_FailedByStatus(rs) ==
    [total_agents |-> Len(rs),
     successful   |-> CountCompleted(rs),
     failed       |-> Cardinality({k \in 1..Len(rs) : rs[k].status = Failed}),
     total_time   |-> SumTimes(rs),
     avg_time     |-> AvgTime(SumTimes(rs), Len(rs))]

\* get_metrics(results): the PyExecutionMetrics it returns
get_metrics(rs) ==
    [total_agents |-> Len(rs),
     successful   |-> CountCompleted(rs),
     failed       |-> UsizeSub(Len(rs), CountCompleted(rs)),
     total_time   |-> SumTimes(rs),
     avg_time     |-> AvgTime(SumTimes(rs), Len(rs))]

\* The status strings of the results handed to get_metrics in the model
Statuses == {Completed, Failed, "Completed", ""}

\* The results handed to get_metrics in the model
MetricResults ==
    {[agent_id       |-> Uuid(1),
      status         |-> s,
      output         |-> IF s = Completed THEN Some("hi there") ELSE None,
      error          |-> IF s = Completed THEN None ELSE Some("error sending request"),
      execution_time |-> AsF64(d)] : s \in Statuses, d \in 0..MaxTime}

\* The caller calls get_metrics(metrics_in)
call_get_metrics ==
    /\ metrics = None
    /\ metrics' = Some(get_metrics(metrics_in))
    /\ UNCHANGED <<runtime_vars, served, clock, metrics_in>>

\* get_metrics on any collection of at most MaxResults results
MetricsInit ==
    /\ Idle
    /\ served = Bodies
    /\ clock = Durations
    /\ metrics_in \in UNION {[1..n -> MetricResults] : n \in 0..MaxResults}
    /\ metrics = None

MetricsNext == call_get_metrics

MetricsSpec == MetricsInit /\ [][MetricsNext]_vars

----------------------------------------------------------------------------
\* The steps of execute_parallel and of its units
Run ==
    \/ spawn
    \/ join_next_none
    \/ join_next_ok
    \/ join_next_err
    \/ \E u \in 1..Len(units) : unit_send(u)
    \/ \E u \in 1..Len(units) : send_done(u)
    \/ \E u \in 1..Len(units) : json_ok(u)
    \/ \E u \in 1..Len(units) : json_err(u)
    \/ \E u \in 1..Len(units) : unit_panic(u)

\* One call of execute_agent, execute_agents_parallel or execute_parallel
Next ==
    \/ execute_agent
    \/ execute_agent_return
    \/ execute_agents_parallel
    \/ execute_parallel
    \/ parallel_return
    \/ rust_return
    \/ Run

Spec == Init /\ [][Next]_vars

\* One call of execute_agents_batch, against a backend that answers every
\* request it answers with the same JSON body, or with a body that is not JSON
BatchInit ==
    /\ Idle
    /\ served = {"response_text", "not_json"}
    /\ clock = {0}
    /\ metrics_in = <<>>
    /\ metrics = <<>>

BatchNext ==
    \/ execute_agents_batch
    \/ batch_iterate
    \/ batch_done
    \/ batch_extend
    \/ batch_fail
    \/ Run

BatchSpec == BatchInit /\ [][BatchNext]_vars

\* One call of any entry point, or up to MaxCalls execute calls on one agent,
\* against the backend of BatchInit
CallsInit ==
    /\ Idle
    /\ served = {"response_text", "not_json"}
    /\ clock = {0}
    /\ metrics_in = <<>>
    /\ metrics = <<>>

CallsNext ==
    \/ execute_agent
    \/ execute_agent_return
    \/ execute_agents_parallel
    \/ execute_parallel
    \/ parallel_return
    \/ rust_return
    \/ rust_execute
    \/ rust_execute_return
    \/ rust_execute_again
    \/ execute_agents_batch
    \/ batch_iterate
    \/ batch_done
    \/ batch_extend
    \/ batch_fail
    \/ Run

CallsSpec == CallsInit /\ [][CallsNext]_vars

\* One call against a backend that answers every request with the same JSON
\* body, or with a body that is not JSON, and a clock that reports one duration
FixedBackendInit ==
    /\ Idle
    /\ served \in {{b, "not_json"} : b \in Bodies \ {"not_json"}}
    /\ clock \in {{d} : d \in Durations}
    /\ metrics_in = <<>>
    /\ metrics = <<>>

FixedBackendSpec == FixedBackendInit /\ [][Next]_vars

----------------------------------------------------------------------------
\* Vocabulary of the properties

\* The units of the execute_parallel call in progress or last returned
CallUnits == {u \in 1..Len(units) : units[u].input = cur}

\* The units spawned for input i
UnitsOf(i) == {u \in 1..Len(units) : units[u].input = i}

InFlight(u) == units[u].st \in {"spawned", "sending", "reading"}

\* The unit returned Ok(AgentResult)
Succeeded(u) == units[u].st = "finished" /\ units[u].out.tag = "Ok"

\* The unit returned Err: a transport failure, a timeout, a body that is not JSON
FailedOrdinarily(u) == units[u].st = "finished" /\ units[u].out.tag = "Err"

\* r is Ok(AgentResult) with status Failed and a non-empty error
IsFailedResult(r) ==
    /\ r.tag = "Ok"
    /\ r.val[1].status = Failed
    /\ r.val[1].error # None
    /\ r.val[1].error[1] # ""

\* The number of entries of rs with status s
CountStatus(rs, s) == Cardinality({k \in 1..Len(rs) : rs[k].status = s})

\* rs holds exactly the values of the function vals, one per element of its
\* domain, in some order
IsArrangement(rs, vals) ==
    /\ Len(rs) = Cardinality(DOMAIN vals)
    /\ \E p \in [1..Len(rs) -> DOMAIN vals] :
          /\ \A a, b \in 1..Len(rs) : p[a] = p[b] => a = b
          /\ \A k \in 1..Len(rs) : rs[k] = vals[p[k]]

\* The AgentResult unit u returned
ResultOf(u) == units[u].out.val[1]

\* The PyAgentResult made of the AgentResult unit u returned
PyResultOf(u) == PyAgentResult(ResultOf(u))

----------------------------------------------------------------------------
\* C1: when some units of an execute_parallel call fail ordinarily (network
\* error, timeout, unparseable body) and the others succeed, the call returns a
\* collection of exactly K results, one Failed entry per failing unit and one
\* Completed entry per succeeding unit; it never fails as a whole.
C1_FaultIsolation ==
    ( /\ pc = "par_returned"
      /\ \E u \in CallUnits : FailedOrdinarily(u)
      /\ \E u \in CallUnits : Succeeded(u)
      /\ \A u \in CallUnits : units[u].st # "panicked" )
    => /\ par_ret.tag = "Ok"
       /\ Len(par_ret.val[1]) = ZipLen(agents, tasks)
       /\ CountStatus(par_ret.val[1], Failed)
             = Cardinality({u \in CallUnits : FailedOrdinarily(u)})
       /\ CountStatus(par_ret.val[1], Completed)
             = Cardinality({u \in CallUnits : Succeeded(u)})

\* C2: no unit is ever cancelled because a sibling timed out or failed: a unit
\* is aborted only when the join itself failed (a JoinError).
C2_NoCrossUnitCancellation ==
    \A u \in 1..Len(units) :
        units[u].st = "aborted" => par_ret = Err(JoinError.err)

\* C3: execute_parallel called with K agents and K tasks either returns a
\* collection holding exactly the K values its K pairs' units returned, each
\* once, in any order, or fails as a whole with no collection.
C3_OneResultPerPair ==
    (pc = "par_returned" /\ Len(agents) = Len(tasks))
    => IF par_ret.tag = "Ok"
       THEN /\ Len(par_ret.val[1]) = Len(agents)
            /\ {units[u].pair : u \in CallUnits} = 1..Len(agents)
            /\ \A u \in CallUnits : Succeeded(u)
            /\ IsArrangement(par_ret.val[1], [u \in CallUnits |-> ResultOf(u)])
       ELSE par_ret.tag = "Err" /\ par_ret.val = <<>>

\* C3, its case: three pairs, a collection returned, the last pair's result first
C3_Witness ==
    /\ pc = "par_returned"
    /\ par_ret.tag = "Ok"
    /\ Len(agents) = 3
    /\ Len(tasks) = 3
    /\ \E u \in CallUnits : units[u].pair = 3 /\ par_ret.val[1][1] = ResultOf(u)

\* C4: when execute_parallel returns, with a collection or with a failure, every
\* unit it spawned has finished with success or failure.
C4_ReturnsAfterAllUnits ==
    pc = "par_returned"
    => \A u \in CallUnits : units[u].st \in {"finished", "panicked"}

\* C5: a unit whose send fails (endpoint unreachable, or no answer within the
\* timeout) returns an AgentResult with status Failed and a non-empty error.
C5_UnreachableYieldsFailed ==
    [][\A u \in 1..Len(units) :
          (units[u].st = "sending" /\ units'[u].st = "finished")
          => IsFailedResult(units'[u].out)]_vars

\* C6: a unit whose response has a non-success HTTP status returns an AgentResult
\* with status Failed and error populated, never a Completed one.
C6_HttpErrorYieldsFailed ==
    [][\A u \in 1..Len(units) :
          (units[u].st = "reading" /\ units[u].resp = "http_error"
             /\ units'[u].st = "finished")
          => IsFailedResult(units'[u].out)]_vars

\* C7: a collection returned by execute_agents_batch over C configurations and M
\* inputs has C*M results, and its positions (i-1)*C+1 .. i*C hold exactly the C
\* results of the units of input i, in any order.
C7_BatchInputMajor ==
    (pc = "returned" /\ ret.tag = "Ok")
    => LET C == Len(agent_configs)
           M == Len(inputs)
           R == ret.val[1]
       IN  /\ Len(R) = C * M
           /\ \A i \in 1..M :
                 /\ {units[u].pair : u \in UnitsOf(i)} = 1..C
                 /\ \A u \in UnitsOf(i) : Succeeded(u)
                 /\ IsArrangement(SubSeq(R, (i - 1) * C + 1, i * C),
                                  [u \in UnitsOf(i) |-> PyResultOf(u)])

\* C7, its case: two configurations, two inputs, and the results of the second
\* input in the order opposite to submission
C7_Witness ==
    /\ pc = "returned"
    /\ ret.tag = "Ok"
    /\ Len(agent_configs) = 2
    /\ Len(inputs) = 2
    /\ \E u \in UnitsOf(2) : units[u].pair = 2 /\ ret.val[1][3] = PyResultOf(u)

\* C8: whenever a unit of a later input exists, every unit of every earlier
\* input has finished, and (until the batch call returns) its result is in the
\* positions of its input in all_results; so units of two inputs are never in
\* flight together.
C8_BatchInputsInOrder ==
    \A u, v \in 1..Len(units) :
        units[u].input < units[v].input
        => /\ Succeeded(u)
           /\ Cardinality(UnitsOf(units[u].input)) = Len(agent_configs)
           /\ pc # "returned"
                => \E k \in (units[u].input - 1) * Len(agent_configs) + 1
                              .. units[u].input * Len(agent_configs) :
                      /\ k <= Len(all_results)
                      /\ all_results[k] = PyResultOf(u)

\* C8, its case: a unit of the second input is in flight
C8_Witness ==
    \E v \in 1..Len(units) :
        /\ units[v].input = 2
        /\ units[v].st = "sending"
        /\ Len(agent_configs) = 2

\* C9: the metrics of any collection R have total_agents = len(R),
\* successful <= total_agents and successful + failed = total_agents.
C9_MetricsCounts ==
    metrics # None
    => /\ metrics[1].total_agents = Len(metrics_in)
       /\ metrics[1].successful <= metrics[1].total_agents
       /\ metrics[1].failed \in Nat
       /\ metrics[1].successful + metrics[1].failed = metrics[1].total_agents

\* C9, its case: a collection with a completed result and results of other
\* statuses, the empty status among them
C9_Witness ==
    /\ metrics # None
    /\ \E a, b, c \in 1..Len(metrics_in) :
          /\ metrics_in[a].status = Completed
          /\ metrics_in[b].status = ""
          /\ metrics_in[c].status = Failed

\* C10: the metrics of the empty collection are total_agents = 0, successful = 0,
\* failed = 0, total_time = 0 and average time 0.
C10_EmptyMetrics ==
    (metrics # None /\ metrics_in = <<>>)
    => /\ metrics[1].total_agents = 0
       /\ metrics[1].successful = 0
       /\ metrics[1].failed = 0
       /\ metrics[1].total_time = F64Zero
       /\ metrics[1].avg_time = F64Zero

\* C10, its case: get_metrics has been called on the empty collection
C10_Witness == metrics # None /\ metrics_in = <<>>


\* The sum of the durations, in milliseconds, of the results rs
RECURSIVE SumOfDurations(_)
SumOfDurations(rs) ==
    IF rs = <<>> THEN 0
    ELSE SumOfDurations(Tail(rs)) + Head(rs).execution_time.num

\* C11: the metrics of N >= 1 results with durations d1..dN have total_time equal
\* to d1 + .. + dN, the durations of Completed and of other results alike, and
\* average time equal to total_time / N.
C11_TotalAndAverage ==
    (metrics # None /\ Len(metrics_in) >= 1)
    => /\ \A k \in 1..Len(metrics_in) : metrics_in[k].execution_time.den = 1
       /\ metrics[1].total_time.den = 1
       /\ metrics[1].total_time.num = SumOfDurations(metrics_in)
       /\ metrics[1].avg_time.den > 0
       /\ metrics[1].avg_time.num * Len(metrics_in)
             = SumOfDurations(metrics_in) * metrics[1].avg_time.den

\* C11, its case: a completed and a failed result, both with a duration above 0,
\* and an average that is not a whole number
C11_Witness ==
    /\ metrics # None
    /\ metrics[1].avg_time.den > 1
    /\ \E a, b \in 1..Len(metrics_in) :
          /\ metrics_in[a].status = Completed
          /\ metrics_in[b].status = Failed
          /\ metrics_in[a].execution_time.num > 0
          /\ metrics_in[b].execution_time.num > 0


\* The agent_ids of a collection of results are pairwise different
DistinctIds(rs) ==
    \A a, b \in 1..Len(rs) : rs[a].agent_id = rs[b].agent_id => a = b

\* C12: every execute call that returns a result gives it a new agent_id: the
\* ids of any two results differ (within one execute_parallel call, across
\* repeated calls on one agent, across the inputs of a batch), the ids of a
\* returned collection are pairwise different, and no id is the name of the
\* agent.
C12_FreshIds ==
    /\ \A u, v \in 1..Len(units) :
          (Succeeded(u) /\ Succeeded(v) /\ u # v)
          => ResultOf(u).agent_id # ResultOf(v).agent_id
    /\ \A u \in 1..Len(units) :
          Succeeded(u) => /\ ResultOf(u).agent_id # units[u].agent
                          /\ ResultOf(u).agent_id \notin
                                {agent_configs[k] : k \in 1..Len(agent_configs)}
    /\ par_ret.tag = "Ok" => DistinctIds(par_ret.val[1])
    /\ (ret.tag = "Ok" /\ entry \notin {"execute_agent", "execute"})
          => DistinctIds(ret.val[1])

\* C12, its case: two execute calls on the same agent have both returned a result
C12_Witness ==
    /\ entry = "execute"
    /\ Len(units) = 2
    /\ Succeeded(1)
    /\ Succeeded(2)
    /\ units[1].agent = units[2].agent


\* An optional string that is present and not empty
NonEmpty(o) == o # None /\ o[1] # ""

\* The JSON body the backend of FixedBackendSpec answers with
ServedBody == CHOOSE b \in served \ {"not_json"} : TRUE

\* C13, as stated: exactly one of {output present and non-empty, error present
\* and non-empty} holds in every AgentResult execute produces.
C13_ExactlyOneNonEmpty ==
    \A u \in 1..Len(units) :
        Succeeded(u) => (NonEmpty(ResultOf(u).output) # NonEmpty(ResultOf(u).error))

\* C13, amended: every AgentResult execute produces has error absent, so output
\* and error are never both non-empty; output is present and non-empty exactly
\* when the body's "response" field is a non-empty string, and neither output
\* nor error is non-empty when the field is missing, not a string or empty.
C13_ErrorAbsentOutputByBody ==
    \A u \in 1..Len(units) :
        Succeeded(u)
        => /\ ResultOf(u).error = None
           /\ ~(NonEmpty(ResultOf(u).output) /\ NonEmpty(ResultOf(u).error))
           /\ NonEmpty(ResultOf(u).output) <=> (ServedBody = "response_text")

\* C13, its case: a call has returned a result with neither output nor error,
\* made of a body without a "response" field
C13_Witness ==
    /\ pc = "returned"
    /\ ret.tag = "Ok"
    /\ ServedBody = "no_response_field"
    /\ \E u \in CallUnits :
          /\ Succeeded(u)
          /\ ~NonEmpty(ResultOf(u).output)
          /\ ~NonEmpty(ResultOf(u).error)

\* The output the claim expects of a JSON body
ExpectedOutput(body) ==
    IF body \in {"response_text", "response_empty"}
    THEN Some(IF body = "response_text" THEN "hi there" ELSE "")
    ELSE None

\* C14: when the HTTP call succeeds and the body parses as JSON, the result has
\* status Completed and no error; its output is the body's "response" field when
\* that field is a string, and is absent when the field is missing or of another
\* type.
C14_OutputExtraction ==
    [][\A u \in 1..Len(units) :
         (/\ u <= Len(units')
          /\ units[u].st = "reading"
          /\ units[u].resp = "http_success"
          /\ units'[u].st = "finished"
          /\ units'[u].out.tag = "Ok")
         => /\ units'[u].out.val[1].status = Completed
            /\ units'[u].out.val[1].error = None
            /\ units'[u].out.val[1].output = ExpectedOutput(ServedBody)]_vars

\* C14, its case: a unit has returned a Completed result without output for a
\* body whose "response" field is a number
C14_Witness ==
    /\ ServedBody = "response_number"
    /\ \E u \in 1..Len(units) :
          /\ Succeeded(u)
          /\ ResultOf(u).status = Completed
          /\ ResultOf(u).output = None


\* The status RustAgent::execute gives the results it builds
CompletedMarker == AgentResult(Uuid(1), "response_text", 0).status

\* C15: get_metrics counts a result as successful exactly when its status equals
\* the Completed marker execute produces; a result with any other status, a
\* different letter case or the empty string included, is counted as failed.
C15_ExactStatusMatch ==
    metrics # None
    => /\ metrics[1].successful =
            Cardinality({k \in 1..Len(metrics_in) :
                            metrics_in[k].status = CompletedMarker})
       /\ metrics[1].failed =
            Cardinality({k \in 1..Len(metrics_in) :
                            metrics_in[k].status # CompletedMarker})

\* C15, its case: metrics of results whose statuses are the marker, the marker in
\* another letter case, and the empty string
C15_Witness ==
    /\ metrics # None
    /\ \E a, b, c \in 1..Len(metrics_in) :
          /\ metrics_in[a].status = CompletedMarker
          /\ metrics_in[b].status = "Completed"
          /\ metrics_in[c].status = ""
    /\ metrics[1].successful = 1
    /\ metrics[1].failed = 2


\* C16: when join_next reports a unit that cannot be joined (it panicked),
\* execute_parallel returns a single failure, the JoinError, and no result
\* collection: the results collected from units joined earlier are dropped, and
\* the caller receives the failure without any result.
C16_JoinFailureNoPartial ==
    [][/\ (/\ pc = "join"
            /\ done # <<>>
            /\ units[Head(done)].st = "panicked"
            /\ set' # set)
           => /\ pc' = "par_returned"
              /\ par_ret'.tag = "Err"
              /\ par_ret'.err = JoinError.err
              /\ par_ret'.val = <<>>
              /\ results' = <<>>
       /\ (/\ pc = "par_returned"
            /\ pc' = "returned"
            /\ par_ret.tag = "Err")
           => /\ ret'.tag \in {"Err", "PyRuntimeError"}
              /\ ret'.err = par_ret.err
              /\ ret'.val = <<>>]_vars

\* C16, its case: the call has returned the JoinError of a panicked unit although
\* another unit of the call had returned a result
C16_Witness ==
    /\ pc = "returned"
    /\ par_ret = Err(JoinError.err)
    /\ ret.val = <<>>
    /\ \E u, v \in CallUnits :
          /\ units[u].st = "panicked"
          /\ Succeeded(v)

\* A unit issues its request when it leaves the state spawned
Requested(u) == units[u].st \in {"sending", "reading", "finished", "panicked"}

\* C17: each execute call issues one HTTP request and never retries: a unit
\* sends only from its start and never returns to it, failed or not; a call on K
\* pairs has at most K units, at most one per pair, so at most K requests.
C17_OneRequestNoRetry ==
    [][/\ \A u \in 1..Len(units) :
            u <= Len(units')
            => /\ (units'[u].st = "sending" /\ units[u].st # "sending")
                     => units[u].st = "spawned"
               /\ units[u].st # "spawned" => units'[u].st # "spawned"
               /\ units[u].st \in {"finished", "panicked", "aborted"}
                     => units'[u] = units[u]
       /\ Len(units') >= Len(units)
       /\ Cardinality(CallUnits') <= (IF entry' \in {"execute_agent", "none"}
                                      THEN 1 ELSE ZipLen(agents', tasks'))
       /\ \A u, v \in CallUnits' :
            units'[u].pair = units'[v].pair => u = v]_vars

\* C17, its case: a call on three pairs has returned after a unit failed, and
\* the failed unit is finished for good
C17_Witness ==
    /\ pc = "returned"
    /\ ZipLen(agents, tasks) = 3
    /\ Cardinality(CallUnits) = 3
    /\ \E u \in CallUnits : FailedOrdinarily(u) /\ Requested(u)
    /\ Cardinality({u \in CallUnits : Requested(u)}) <= 3

\* The units whose failure is a failure of the call that has returned: those of
\* the call, or of the last execute call on one agent
UnitsOfReturnedCall ==
    {u \in 1..Len(units) : entry = "execute" => units[u].input = cur}

\* The AgentResults, or PyAgentResults, a caller has received
Delivered ==
    IF ret.tag # "Ok" THEN {}
    ELSE IF entry \in {"execute_agent", "execute"} THEN {ret.val[1]}
    ELSE {ret.val[1][k] : k \in 1..Len(ret.val[1])}

\* C18: no execute call yields an AgentResult whose status is Failed or whose
\* error is present: every result a unit returns and every result a caller
\* receives has status "completed" and no error, and a call with a unit that
\* failed returns a failure of the whole call.
C18_NoFailedResultEver ==
    /\ \A u \in 1..Len(units) :
          units[u].out.tag = "Ok"
          => /\ ResultOf(u).status = "completed"
             /\ ResultOf(u).status # Failed
             /\ ResultOf(u).error = None
    /\ \A r \in Delivered : r.status = "completed" /\ r.error = None
    /\ \A k \in 1..Len(all_results) :
          all_results[k].status = "completed" /\ all_results[k].error = None
    /\ (pc = "returned" /\ \E u \in UnitsOfReturnedCall : FailedOrdinarily(u))
          => ret.tag \in {"Err", "PyRuntimeError"} /\ ret.val = <<>>

\* C18, its case: a batch has failed as a whole because a unit of its second
\* input failed, after the first input had given results
C18_Witness ==
    /\ entry = "execute_agents_batch"
    /\ pc = "returned"
    /\ ret.tag = "PyRuntimeError"
    /\ cur = 2
    /\ \E u \in UnitsOf(1) : Succeeded(u)
    /\ \E u \in UnitsOf(2) : FailedOrdinarily(u)


\* C19: in execute_agents_batch, when the parallel call for an input fails, the
\* batch returns that single failure, delivers none of the results accumulated
\* for the inputs before it, and for the inputs after it builds no agent and
\* issues no request.
C19_BatchFailsAsAWhole ==
    (entry = "execute_agents_batch" /\ pc = "returned" /\ par_ret.tag = "Err")
    => /\ ret = PyRuntimeError(par_ret.err)
       /\ ret.val = <<>>
       /\ all_results = <<>>
       /\ built = cur * Len(agent_configs)
       /\ \A u \in 1..Len(units) : units[u].input <= cur
       /\ \A i \in (cur + 1)..Len(inputs) : UnitsOf(i) = {}

\* C19, its case: the parallel call for the second input has failed after the
\* first input had given two results, and the batch has returned
C19_Witness ==
    /\ entry = "execute_agents_batch"
    /\ pc = "returned"
    /\ par_ret.tag = "Err"
    /\ Len(inputs) = 2
    /\ cur = 2
    /\ \A u \in UnitsOf(1) : Succeeded(u)
    /\ Cardinality(UnitsOf(1)) = 2
    /\ ret.tag = "PyRuntimeError"


\* C20: execute_parallel(agents, tasks) pairs the sequences by position: unit j
\* runs agent j on task j; with different lengths it runs the first
\* min(len(agents), len(tasks)) pairs only, returns that many results when they
\* all succeed, and reports no error for the agents or tasks left over: an error
\* it returns is the error of one of its units.
C20_PositionalPairing ==
    entry = "execute_parallel"
    => LET n == Min(Len(agent_configs), Len(inputs)) IN
       /\ \A u \in 1..Len(units) :
             /\ units[u].pair \in 1..n
             /\ units[u].agent = agent_configs[units[u].pair]
             /\ units[u].task = inputs[units[u].pair]
       /\ pc \in {"join", "par_returned", "returned"}
             => {units[u].pair : u \in 1..Len(units)} = 1..n
       /\ (pc \in {"par_returned", "returned"}
              /\ \A u \in 1..Len(units) : Succeeded(u))
             => par_ret.tag = "Ok" /\ Len(par_ret.val[1]) = n
       /\ par_ret.tag = "Ok" => Len(par_ret.val[1]) = n
       /\ par_ret.tag = "Err"
             => \E u \in 1..Len(units) :
                   /\ units[u].out.tag \in {"Err", "JoinError"}
                   /\ units[u].out.err = par_ret.err
       /\ (pc = "returned") => ret = par_ret

\* C20, its case: called with three agents and one task, execute_parallel has
\* run agent 1 on task 1 only and returned one result
C20_Witness ==
    /\ entry = "execute_parallel"
    /\ pc = "returned"
    /\ Len(agent_configs) = 3
    /\ Len(inputs) = 1
    /\ Len(units) = 1
    /\ units[1].agent = Name(1)
    /\ units[1].task = Task(1)
    /\ ret.tag = "Ok"
    /\ Len(ret.val[1]) = 1

====
